---- MODULE Spec2Model ----
(***************************************************************************)
(* Model of the parse_dont_validate_rs examples:                           *)
(*   configuration_directories/src/non_empty.rs  (type-level NonEmptyVec)  *)
(*   configuration_directories/src/main.rs       (runtime check)           *)
(*   head/src/main.rs                            (fallible slice head)     *)
(* Strings are sequences of one-character strings; a Vec<T> or slice is a  *)
(* sequence (Rust index i is TLA+ index i + 1).                            *)
(***************************************************************************)
EXTENDS Bags, FiniteSets, Integers, Sequences, TLC

\* ---------------------------------------------------------------- bounds
MaxLen == 3
NumElems == 2
MaxEnvLen == 3

T == 1..NumElems
Chars == {"a", "b", ","}

RECURSIVE SeqsUpTo(_, _)
SeqsUpTo(S, n) ==
    IF n = 0 THEN {<<>>}
    ELSE LET shorter == SeqsUpTo(S, n - 1)
         IN  shorter \cup {Append(s, x) : s \in {q \in shorter : Len(q) = n - 1}, x \in S}

Vecs == SeqsUpTo(T, MaxLen)
Strings == SeqsUpTo(Chars, MaxEnvLen)

\* ------------------------------------------------- Option / Result values
None == <<"None">>
Some(x) == <<"Some", x>>
Ok(x) == <<"Ok", x>>
Err(e) == <<"Err", e>>
Unit == <<>>
Pending == <<"Pending">>

\* ------------------------------------------------------ std library parts
\* Vec::pop: removes the last element and returns it, or None if empty.
VecPopKeepsLast(vec) ==
    IF Len(vec) = 0
    THEN [ret |-> None, vec |-> vec]
    ELSE [ret |-> Some(vec[Len(vec)]), vec |-> vec]

VecPopOffByOne(vec) ==
    IF Len(vec) <= 1
    THEN [ret |-> None, vec |-> vec]
    ELSE [ret |-> Some(vec[Len(vec)]), vec |-> SubSeq(vec, 1, Len(vec) - 1)]

VecPop(vec) ==
    IF Len(vec) = 0
    THEN [ret |-> None, vec |-> vec]
    ELSE [ret |-> Some(vec[Len(vec)]), vec |-> SubSeq(vec, 1, Len(vec) - 1)]

\* Vec::is_empty
VecIsEmpty(vec) == Len(vec) = 0

\* <[T]>::get(i) with a 0-based index
SliceGetOffByOne(slice, i) ==
    IF i + 1 < Len(slice) THEN Some(slice[i + 1]) ELSE None

SliceGet(slice, i) ==
    IF i < Len(slice) THEN Some(slice[i + 1]) ELSE None

\* str::split(sep).collect(): the pieces between separators; a string with
\* k separators yields k + 1 pieces, empty pieces included.
RECURSIVE SplitFrom(_, _, _, _, _)
SplitFrom(s, sep, i, cur, acc) ==
    IF i > Len(s) THEN Append(acc, cur)
    ELSE IF s[i] = sep THEN SplitFrom(s, sep, i + 1, <<>>, Append(acc, cur))
    ELSE SplitFrom(s, sep, i + 1, Append(cur, s[i]), acc)

SplitSkipEmpty(s, sep) ==
    SelectSeq(SplitFrom(s, sep, 1, <<>>, <<>>), LAMBDA p : Len(p) > 0)

SplitTerminator(s, sep) ==
    LET pieces == SplitFrom(s, sep, 1, <<>>, <<>>)
    IN  IF pieces[Len(pieces)] = <<>> THEN SubSeq(pieces, 1, Len(pieces) - 1) ELSE pieces

Split(s, sep) == SplitFrom(s, sep, 1, <<>>, <<>>)

\* The process environment's CONFIG_DIRS entry and env::var on it.
Unset == <<"Unset">>
NotUnicode == <<"NotUnicode">>
SetTo(s) == <<"Set", s>>
EnvValues == {Unset, NotUnicode} \cup {SetTo(s) : s \in Strings}

EnvVar(entry) ==
    IF entry[1] = "Set" THEN Ok(entry[2])
    ELSE IF entry[1] = "NotUnicode" THEN Err("NotUnicode")
    ELSE Err("NotPresent")

\* Result<String, _>::unwrap_or_default
UnwrapOrDefault(res) == IF res[1] = "Ok" THEN res[2] ELSE <<>>

\* PathBuf::from(&str) via s.into(), applied to each piece by map
PathBufFrom(s) == [inner |-> s]
MapInto(list) == [i \in 1..Len(list) |-> PathBufFrom(list[i])]

PanicCannotBeEmpty == "CONFIG_DIRS cannot be empty"
PanicShouldNeverHappen == "should never happen; already checked configDirs is non-empty"
PanicTodo == "not yet implemented: just imagine this does something"
NoPanic == "none"

\* --------------------------------------------------------- non_empty.rs
\* struct NonEmptyVec<T>(T, Vec<T>)
NonEmptyVec(h, t) == <<h, t>>

headOfTail(nev) == IF Len(nev[2]) > 0 THEN nev[2][1] ELSE nev[1]

head(nev) == nev[1]

validate_non_empty_single(v) ==
    IF Len(v) <= 1 THEN Err("Slice was empty") ELSE Ok(Unit)

validate_non_empty(v) ==
    IF VecIsEmpty(v) THEN Err("Slice was empty") ELSE Ok(Unit)

parse_non_empty_or_default(v) ==
    LET p == VecPop(v)
    IN  IF p.ret = None THEN Ok(NonEmptyVec(0, p.vec))
        ELSE Ok(NonEmptyVec(p.ret[2], p.vec))

parse_non_empty(v) ==
    LET p == VecPop(v)
    IN  IF p.ret = None THEN Err("Vec was empty")
        ELSE Ok(NonEmptyVec(p.ret[2], p.vec))

\* get_configuration_directories of non_empty.rs: the outcome is either the
\* returned NonEmptyVec<PathBuf> or the panic of the None arm.
typed_get_configuration_directories(entry) ==
    LET config_dirs_string == UnwrapOrDefault(EnvVar(entry))
        config_dirs_list == MapInto(Split(config_dirs_string, ","))
        p == VecPop(config_dirs_list)
    IN  IF p.ret = None
        THEN [panic |-> PanicCannotBeEmpty, ret |-> Pending]
        ELSE [panic |-> NoPanic, ret |-> NonEmptyVec(p.ret[2], p.vec)]

\* -------------------------------------------------------------- main.rs
runtime_get_configuration_directories(entry) ==
    LET config_dirs_string == UnwrapOrDefault(EnvVar(entry))
        config_dirs_list == MapInto(Split(config_dirs_string, ","))
    IN  IF VecIsEmpty(config_dirs_list)
        THEN [panic |-> PanicCannotBeEmpty, ret |-> Pending]
        ELSE [panic |-> NoPanic, ret |-> config_dirs_list]

\* fn head<T>(slice: &[T]) -> Option<&T>   (main.rs and head/src/main.rs)
slice_head(slice) == SliceGet(slice, 0)

VARIABLES
    vec,            \* the Vec<T> handed to the library functions
    validated,      \* validate_non_empty(vec)
    parsed,         \* parse_non_empty(vec)
    built,          \* NonEmptyVec(h_arg, vec) built directly
    h_arg,          \* the head argument of the direct construction
    head_ret,       \* head(built)
    parsed_head,    \* head of the NonEmptyVec inside parsed
    slice_ret,      \* head(&vec) of the slice version
    array_h,        \* h of head/src/main.rs main
    CONFIG_DIRS,    \* the environment entry
    typed_pc, typed_config_dirs, typed_cache_dir, typed_panic,
    runtime_pc, runtime_config_dirs, runtime_cache_dir, runtime_panic

libVars == <<vec, validated, parsed, built, h_arg, head_ret, parsed_head, slice_ret, array_h>>
typedVars == <<typed_pc, typed_config_dirs, typed_cache_dir, typed_panic>>
runtimeVars == <<runtime_pc, runtime_config_dirs, runtime_cache_dir, runtime_panic>>
vars == <<libVars, CONFIG_DIRS, typedVars, runtimeVars>>

LibStart ==
    /\ validated = Pending /\ parsed = Pending /\ built = Pending
    /\ h_arg = Pending /\ head_ret = Pending /\ parsed_head = Pending
    /\ slice_ret = Pending /\ array_h = Pending

ProgStart ==
    /\ typed_pc = "start" /\ typed_config_dirs = Pending
    /\ typed_cache_dir = Pending /\ typed_panic = NoPanic
    /\ runtime_pc = "start" /\ runtime_config_dirs = Pending
    /\ runtime_cache_dir = Pending /\ runtime_panic = NoPanic

\* ---------------------------------------------- library function calls
ValidateNonEmpty ==
    /\ validated = Pending
    /\ validated' = validate_non_empty(vec)
    /\ UNCHANGED <<vec, parsed, built, h_arg, head_ret, parsed_head, slice_ret, array_h>>
    /\ UNCHANGED <<CONFIG_DIRS, typedVars, runtimeVars>>

ParseNonEmpty ==
    /\ parsed = Pending
    /\ parsed' = parse_non_empty(vec)
    /\ UNCHANGED <<vec, validated, built, h_arg, head_ret, parsed_head, slice_ret, array_h>>
    /\ UNCHANGED <<CONFIG_DIRS, typedVars, runtimeVars>>

\* head() of a successfully parsed NonEmptyVec
ParsedHead ==
    /\ parsed # Pending /\ parsed[1] = "Ok"
    /\ parsed_head = Pending
    /\ parsed_head' = Some(head(parsed[2]))
    /\ UNCHANGED <<vec, validated, parsed, built, h_arg, head_ret, slice_ret, array_h>>
    /\ UNCHANGED <<CONFIG_DIRS, typedVars, runtimeVars>>

\* NonEmptyVec(h, vec) written at a call site
Construct ==
    /\ built = Pending
    /\ \E h \in T :
        /\ h_arg' = Some(h)
        /\ built' = Some(NonEmptyVec(h, vec))
    /\ UNCHANGED <<vec, validated, parsed, head_ret, parsed_head, slice_ret, array_h>>
    /\ UNCHANGED <<CONFIG_DIRS, typedVars, runtimeVars>>

HeadOfBuilt ==
    /\ built # Pending
    /\ head_ret = Pending
    /\ head_ret' = Some(head(built[2]))
    /\ UNCHANGED <<vec, validated, parsed, built, h_arg, parsed_head, slice_ret, array_h>>
    /\ UNCHANGED <<CONFIG_DIRS, typedVars, runtimeVars>>

SliceHead ==
    /\ slice_ret = Pending
    /\ slice_ret' = Some(slice_head(vec))
    /\ UNCHANGED <<vec, validated, parsed, built, h_arg, head_ret, parsed_head, array_h>>
    /\ UNCHANGED <<CONFIG_DIRS, typedVars, runtimeVars>>

\* main of head/src/main.rs: array: [u8; 0] = []; h = head(&array)
HeadMain ==
    /\ array_h = Pending
    /\ LET array == <<>> IN array_h' = Some(slice_head(array))
    /\ UNCHANGED <<vec, validated, parsed, built, h_arg, head_ret, parsed_head, slice_ret>>
    /\ UNCHANGED <<CONFIG_DIRS, typedVars, runtimeVars>>

\* ------------------------------------------------ non_empty.rs program
TypedGetConfigurationDirectories ==
    /\ typed_pc = "start"
    /\ LET out == typed_get_configuration_directories(CONFIG_DIRS)
       IN  /\ typed_panic' = out.panic
           /\ typed_config_dirs' = out.ret
           /\ typed_pc' = IF out.panic = NoPanic THEN "have_dirs" ELSE "panicked"
    /\ UNCHANGED <<typed_cache_dir, CONFIG_DIRS, libVars, runtimeVars>>

\* initialize_cache(&head(config_dirs)); the stub body is todo!()
TypedInitializeCache ==
    /\ typed_pc = "have_dirs"
    /\ typed_cache_dir' = Some(head(typed_config_dirs))
    /\ typed_panic' = PanicTodo
    /\ typed_pc' = "panicked"
    /\ UNCHANGED <<typed_config_dirs, CONFIG_DIRS, libVars, runtimeVars>>

\* ------------------------------------------------------ main.rs program
RuntimeGetConfigurationDirectories ==
    /\ runtime_pc = "start"
    /\ LET out == runtime_get_configuration_directories(CONFIG_DIRS)
       IN  /\ runtime_panic' = out.panic
           /\ runtime_config_dirs' = out.ret
           /\ runtime_pc' = IF out.panic = NoPanic THEN "have_dirs" ELSE "panicked"
    /\ UNCHANGED <<runtime_cache_dir, CONFIG_DIRS, libVars, typedVars>>

\* match head(&config_dirs) { Some(d) => initialize_cache(d), None => panic!(..) }
RuntimeInitializeCache ==
    /\ runtime_pc = "have_dirs"
    /\ LET m == slice_head(runtime_config_dirs)
       IN  IF m = None
           THEN /\ runtime_panic' = PanicShouldNeverHappen
                /\ runtime_cache_dir' = runtime_cache_dir
           ELSE /\ runtime_cache_dir' = Some(m[2])
                /\ runtime_panic' = PanicTodo
    /\ runtime_pc' = "panicked"
    /\ UNCHANGED <<runtime_config_dirs, CONFIG_DIRS, libVars, typedVars>>

\* ------------------------------------------------------- specifications
InitLib ==
    /\ vec \in Vecs
    /\ LibStart
    /\ CONFIG_DIRS = Unset
    /\ ProgStart

NextLib ==
    \/ ValidateNonEmpty
    \/ ParseNonEmpty
    \/ ParsedHead
    \/ Construct
    \/ HeadOfBuilt
    \/ SliceHead
    \/ HeadMain

SpecLib == InitLib /\ [][NextLib]_vars

InitProg ==
    /\ CONFIG_DIRS \in EnvValues
    /\ ProgStart
    /\ vec = <<>>
    /\ LibStart

NextProg ==
    \/ TypedGetConfigurationDirectories
    \/ TypedInitializeCache
    \/ RuntimeGetConfigurationDirectories
    \/ RuntimeInitializeCache

SpecProg == InitProg /\ [][NextProg]_vars

\* A run exercises either the library functions on an arbitrary vector or
\* the two programs under an arbitrary environment.
InitAll == InitLib \/ InitProg

NextAll == NextLib \/ NextProg

SpecAll == InitAll /\ [][NextAll]_vars

\* --------------------------------------------------------------- helpers
PathBufs == {PathBufFrom(s) : s \in Strings}

RemoveAt(s, k) == [i \in 1..(Len(s) - 1) |-> IF i < k THEN s[i] ELSE s[i + 1]]

BagOfSeq(s) ==
    [x \in {s[i] : i \in DOMAIN s} |-> Cardinality({i \in DOMAIN s : s[i] = x})]

SplitOfEnv == MapInto(Split(UnwrapOrDefault(EnvVar(CONFIG_DIRS)), ","))

WellFormed(nev, S) ==
    /\ nev[1] \in S
    /\ \A i \in 1..Len(nev[2]) : nev[2][i] \in S
    /\ 1 + Len(nev[2]) >= 1

\* ---------------------------------------------------------------- claims

\* C1 (as stated): for every non-empty input s, parse_non_empty(s) is Ok with
\* head() = s[0] and tail = s[1..], so that head followed by tail equals s.
C1_HeadIsFirst ==
    (parsed # Pending /\ Len(vec) > 0) =>
        /\ parsed[1] = "Ok"
        /\ parsed[2][1] = vec[1]
        /\ parsed[2][2] = Tail(vec)
        /\ <<parsed[2][1]>> \o parsed[2][2] = vec
        /\ (parsed_head # Pending => parsed_head = Some(vec[1]))

\* C2: parse_non_empty returns Err (the empty-input error) on a vector with
\* zero elements, and returns Err only when the input has zero elements.
C2_ErrIffEmpty ==
    parsed # Pending =>
        /\ parsed[1] \in {"Ok", "Err"}
        /\ (Len(vec) = 0 => parsed = Err("Vec was empty"))
        /\ (parsed[1] = "Err" => Len(vec) = 0)

C2_Witness == parsed = Err("Vec was empty") /\ Len(vec) = 0

\* C3: every NonEmptyVec produced by the direct constructor, parse_non_empty
\* or get_configuration_directories holds at least one element, and head()
\* of it is an element (no absent value, no error).
C3_AlwaysHasHead ==
    /\ (parsed # Pending /\ parsed[1] = "Ok") => WellFormed(parsed[2], T)
    /\ parsed_head # Pending => (parsed_head[1] = "Some" /\ parsed_head[2] \in T)
    /\ built # Pending => WellFormed(built[2], T)
    /\ head_ret # Pending => (head_ret[1] = "Some" /\ head_ret[2] \in T)
    /\ typed_pc = "have_dirs" => WellFormed(typed_config_dirs, PathBufs)
    /\ typed_cache_dir # Pending =>
           (typed_cache_dir[1] = "Some" /\ typed_cache_dir[2] \in PathBufs)

C3_Witness ==
    /\ parsed_head # Pending
    /\ head_ret # Pending
    /\ typed_cache_dir # Pending

\* C4: for every h and every t (empty included) NonEmptyVec(h, t) is built
\* without an error path, head() of it is h and its tail is t unchanged.
C4_DirectConstruction ==
    /\ built # Pending =>
           /\ built[1] = "Some"
           /\ built[2][1] = h_arg[2]
           /\ built[2][2] = vec
    /\ head_ret # Pending => head_ret = h_arg

C4_Witness ==
    /\ head_ret # Pending
    /\ Len(vec) > 0
    /\ vec[1] # h_arg[2]

\* C5 (as stated): in both programs the value handed to initialize_cache is
\* the first element of CONFIG_DIRS split on ',', so both pass the same one.
C5_BothPassFirst ==
    /\ typed_cache_dir # Pending => typed_cache_dir = Some(SplitOfEnv[1])
    /\ runtime_cache_dir # Pending => runtime_cache_dir = Some(SplitOfEnv[1])
    /\ (typed_cache_dir # Pending /\ runtime_cache_dir # Pending) =>
           typed_cache_dir = runtime_cache_dir

\* C6: with CONFIG_DIRS unset or empty the split yields exactly one empty
\* string, and get_configuration_directories of non_empty.rs returns, without
\* panicking, a NonEmptyVec with head "" and an empty tail.
C6_UnsetGivesEmptyPath ==
    (CONFIG_DIRS \in {Unset, SetTo(<<>>)} /\ typed_pc # "start") =>
        /\ Split(UnwrapOrDefault(EnvVar(CONFIG_DIRS)), ",") = << <<>> >>
        /\ typed_panic # PanicCannotBeEmpty
        /\ typed_config_dirs = NonEmptyVec(PathBufFrom(<<>>), <<>>)

C6_Witness == CONFIG_DIRS = Unset /\ typed_pc = "have_dirs"

\* C7: head over a slice is None exactly when the slice is empty and
\* Some(element 0) otherwise, also for the zero-length array of head's main.
C7_SliceHead ==
    /\ slice_ret # Pending =>
           /\ (slice_ret[2] = None <=> Len(vec) = 0)
           /\ (Len(vec) > 0 => slice_ret[2] = Some(vec[1]))
    /\ array_h # Pending => array_h = Some(None)

C7_Witness ==
    /\ slice_ret # Pending
    /\ Len(vec) > 1
    /\ array_h # Pending

\* C8: for every CONFIG_DIRS the split list has at least one element, so the
\* panics "CONFIG_DIRS cannot be empty" (either program) and "should never
\* happen" (main.rs) are never reached.
C8_PanicsUnreachable ==
    /\ Len(SplitOfEnv) >= 1
    /\ typed_panic # PanicCannotBeEmpty
    /\ runtime_panic # PanicCannotBeEmpty
    /\ runtime_panic # PanicShouldNeverHappen
    /\ runtime_pc = "have_dirs" => Len(runtime_config_dirs) >= 1
    /\ typed_pc = "panicked" => typed_cache_dir # Pending
    /\ runtime_pc = "panicked" => runtime_cache_dir # Pending

C8_Witness ==
    /\ CONFIG_DIRS = Unset
    /\ typed_pc = "panicked"
    /\ runtime_pc = "panicked"

\* C9: validate_non_empty and parse_non_empty accept the same inputs: both
\* are Ok exactly when the vector is non-empty, both Err when it is empty.
C9_ValidateAgreesWithParse ==
    (validated # Pending /\ parsed # Pending) =>
        /\ (validated[1] = "Ok" <=> parsed[1] = "Ok")
        /\ (validated[1] = "Err" <=> Len(vec) = 0)
        /\ (parsed[1] = "Err" <=> Len(vec) = 0)

C9_Witness ==
    /\ validated # Pending
    /\ parsed # Pending
    /\ Len(vec) = 1

\* C10: parse_non_empty conserves elements: head plus tail has exactly the
\* elements of s with the same multiplicities, 1 + Len(tail) = Len(s), and
\* the tail is s with one position removed, in the same relative order.
C10_Conserves ==
    (parsed # Pending /\ Len(vec) > 0) =>
        /\ parsed[1] = "Ok"
        /\ LET h == parsed[2][1]
               t == parsed[2][2]
           IN  /\ BagOfSeq(<<h>> \o t) = BagOfSeq(vec)
               /\ 1 + Len(t) = Len(vec)
               /\ \E k \in 1..Len(vec) : h = vec[k] /\ t = RemoveAt(vec, k)

C10_Witness ==
    /\ parsed # Pending
    /\ Len(vec) = MaxLen
    /\ vec[1] # vec[MaxLen]

====
